---- MODULE Spec2Model ----
(***************************************************************************)
(* Job orchestration and artifact pipeline of aiom4b: the job store, the   *)
(* HTTP submission handlers and their background task wrappers, the        *)
(* conversion pipeline with its progress estimator, the tagging pipeline   *)
(* and backup reclamation.                                                 *)
(*                                                                         *)
(* Names the code uses but src/ does not declare (JobDB.progress,          *)
(* JobUpdate.progress, PROCESSING_DIR, READY_TO_TAG_DIR) are modelled as   *)
(* the code uses them: progress is a job field that update_job assigns,    *)
(* and the processing and ready areas are two directories.                 *)
(*                                                                         *)
(* In-server coroutines interleave only at their awaits: the variable      *)
(* loop names the task that holds the event loop between two awaits.       *)
(* Operations of the command line process share the store and the disk     *)
(* and interleave anywhere.                                                *)
(***************************************************************************)
EXTENDS Integers, Sequences, FiniteSets, TLC

\* ---------------------------------------------------------------- bounds
MaxJobs == 2
MaxTime == 1
TicksPerDay == 2

\* ------------------------------------------------------------- constants
PerFileSeconds == 12
ProgressMinStep == 2
ProgressFinal == 100

\* ------------------------------------------------------- optional values
None == <<>>
Some(x) == <<x>>
IsSet(o) == o # None
Val(o) == o[1]

\* ----------------------------------------------- rationals for progress
Q(n) == <<n, 1>>
QLeq(a, b) == a[1] * b[2] <= b[1] * a[2]
QEq(a, b) == a[1] * b[2] = b[1] * a[2]
QSubGeq(a, b, k) == a[1] * b[2] - b[1] * a[2] >= k * a[2] * b[2]

\* ------------------------------------------------------------ enumerations
JobIds == 1..MaxJobs
QUEUED == "queued"
RUNNING == "running"
COMPLETED == "completed"
FAILED == "failed"
CONVERSION == "conversion"
TAGGING == "tagging"
Terminal == {COMPLETED, FAILED}

\* -------------------------------------------------------- source folders
\* "A" holds two files in two sub-directories, "E" exists and holds no
\* eligible file, "M" does not exist.
Folders == {"A", "E", "M"}
FolderExists(f) == f # "M"

\* A file is its folder and the parts of its path below the folder; parts
\* are ranks in the lexicographic order of names.
FolderFiles(f) ==
    CASE f = "A" -> {[folder |-> "A", parts |-> <<1, 2>>],
                     [folder |-> "A", parts |-> <<2, 1>>]}
      [] OTHER -> {}

FileName(p) == p.parts[Len(p.parts)]

RECURSIVE SeqLess(_, _)
SeqLess(s, t) ==
    IF s = <<>> THEN t # <<>>
    ELSE IF t = <<>> THEN FALSE
    ELSE IF Head(s) # Head(t) THEN Head(s) < Head(t)
    ELSE SeqLess(Tail(s), Tail(t))

PathLess(p, q) == SeqLess(p.parts, q.parts)

RECURSIVE SortedByPath(_)
\* the files of the set S in ascending path order
SortedByPath(S) ==
    IF S = {} THEN <<>>
    ELSE LET m == CHOOSE x \in S : \A y \in S \ {x} : PathLess(x, y)
         IN <<m>> \o SortedByPath(S \ {m})

get_mp3_files(f) ==
    IF ~FolderExists(f) THEN <<>> ELSE SortedByPath(FolderFiles(f))

RECURSIVE Flatten(_)
Flatten(folders) ==
    IF folders = <<>> THEN <<>>
    ELSE get_mp3_files(Head(folders)) \o Flatten(Tail(folders))

RECURSIVE InsertByName(_, _)
\* insertion after every element whose name is not greater: a stable sort
InsertByName(x, s) ==
    IF s = <<>> THEN <<x>>
    ELSE IF FileName(x) < FileName(Head(s)) THEN <<x>> \o s
    ELSE <<Head(s)>> \o InsertByName(x, Tail(s))

RECURSIVE SortByName(_)
SortByName(s) ==
    IF s = <<>> THEN <<>>
    ELSE InsertByName(s[Len(s)], SortByName(SubSeq(s, 1, Len(s) - 1)))

CollectFiles(folders) == SortByName(Flatten(folders))

\* ------------------------------------------------------------------ paths
Path(area, base, stamp) == [area |-> area, base |-> base, stamp |-> stamp]
NoName == [base |-> <<>>, stamp |-> 0]
CustomNames == {}
\* the output file name: the requested one, or the folder names and the
\* second of the clock
OutputName(folders, requested, t) ==
    IF IsSet(requested) THEN [base |-> <<Val(requested)>>, stamp |-> -1]
    ELSE [base |-> folders, stamp |-> t]
ProcessingPath(n) == Path("processing", n.base, n.stamp)
ReadyPathInProcessing(n) == Path("processing", n.base, n.stamp)

ReadyPath(n) == Path("ready", n.base, n.stamp)
BackupPath(folder, t) == Path("backup", <<folder>>, t)

Remove(d, S) == [p \in DOMAIN d \ S |-> d[p]]
Put(d, p, c) == [q \in DOMAIN d \cup {p} |-> IF q = p THEN c ELSE d[q]]

VARIABLES jobs, nextJob, task, loop, disk, tagged, nextFile, now, lastApply,
          call

vars == <<jobs, nextJob, task, loop, disk, tagged, nextFile, now, lastApply, call>>

\* --------------------------------------------------------------- job store
NoPath == Path("none", <<>>, 0)

NewJob(type, inputs, t) ==
    [job_type |-> type, status |-> QUEUED, input_folders |-> inputs,
     output_file |-> None, backup_paths |-> None, progress |-> Q(0),
     start_time |-> None, end_time |-> None, log |-> None,
     created_at |-> t, updated_at |-> t]

\* JobUpdate with every field absent
NoUpdate ==
    [status |-> None, output_file |-> None, backup_paths |-> None,
     progress |-> None, start_time |-> None, end_time |-> None, log |-> None]

Pick(new, old) == IF IsSet(new) THEN Val(new) ELSE old

TakeNew(new, old) == new

PickOpt(new, old) == IF IsSet(new) THEN new ELSE old

UpdateJobOrInsert(js, id, u, t) ==
    [k \in DOMAIN js \cup {id} |->
        IF k \in DOMAIN js THEN js[k] ELSE NewJob(CONVERSION, <<>>, t)]

\* JobService.update_job: no-op on an unknown id, else the fields that are
\* present and updated_at
UpdateJob(js, id, u, t) ==
    IF id \notin DOMAIN js THEN js
    ELSE [js EXCEPT ![id] =
            [@ EXCEPT !.status = Pick(u.status, @),
                      !.output_file = PickOpt(u.output_file, @),
                      !.backup_paths = PickOpt(u.backup_paths, @),
                      !.progress = Pick(u.progress, @),
                      !.start_time = PickOpt(u.start_time, @),
                      !.end_time = PickOpt(u.end_time, @),
                      !.log = PickOpt(u.log, @),
                      !.updated_at = t]]

\* what update_job returns: the updated job, or None for an unknown id
UpdateJobReturn(js, id, u, t) ==
    IF id \notin DOMAIN js THEN None ELSE Some(UpdateJob(js, id, u, t)[id])

AddJob(js, id, type, inputs, t) ==
    [k \in DOMAIN js \cup {id} |-> IF k = id THEN NewJob(type, inputs, t) ELSE js[k]]

NoTruncation(t) == t

\* utcnow() with hour, minute, second and microsecond replaced by 0
DayStart(t) == (t \div TicksPerDay) * TicksPerDay

OldJobsOfAnyStatus(js, days, t) ==
    {k \in DOMAIN js : js[k].created_at < DayStart(t) - days * TicksPerDay}

\* the jobs JobService.clear_old_jobs selects
OldJobs(js, days, t) ==
    {k \in DOMAIN js : /\ js[k].status \in Terminal
                       /\ js[k].created_at < DayStart(t) - days * TicksPerDay}

\* JobService.clear_old_jobs: the store after it and the count it returns
SweepResult(js, days, t) ==
    [jobs |-> [k \in DOMAIN js \ OldJobs(js, days, t) |-> js[k]],
     count |-> Cardinality(OldJobs(js, days, t))]

\* ------------------------------------------------------------------ tasks
IdleTask ==
    [pc |-> "none", after |-> 0, folders |-> <<>>, requested |-> None,
     out |-> NoName, files |-> <<>>, rc |-> None, est |-> "none",
     last |-> Q(0), elapsed |-> 0, err |-> None,
     path |-> NoPath, asin |-> None]

\* a task that ended keeps nothing
DoneTask == [IdleTask EXCEPT !.pc = "done"]

Finished(j) == IF j = 0 THEN TRUE ELSE task[j].pc = "done"

\* ------------------------------------------------------ progress estimator
ElapsedSamples == {1, 6}

TimeProgressUncapped(e, n) == <<e, PerFileSeconds * n>>

\* elapsed / estimated total, capped at 0.9
TimeProgress(e, n) ==
    IF 10 * e >= 9 * PerFileSeconds * n THEN <<9, 10>> ELSE <<e, PerFileSeconds * n>>

\* the three segment curve of _track_ffmpeg_progress, as a rational
EstimatorProgress(e, n) ==
    LET tp == TimeProgress(e, n)
        tn == tp[1]
        td == tp[2]
    IN IF 10 * tn < td THEN <<80 * tn, 4 * td>>
       ELSE IF 2 * tn < td THEN <<230 * tn - 15 * td, 4 * td>>
       ELSE <<650 * tn - 225 * td, 4 * td>>

\* "if progress_percentage - last_progress >= 2.0"
EstimatorWrites(p, last) == QSubGeq(p, last, ProgressMinStep)

\* "while process.returncode is None"
EstimatorLoops(rc) == rc = None

\* ------------------------------------------------------------- tagged files
NewTagged(path) ==
    [file_path |-> path, is_tagged |-> FALSE, asin |-> None, title |-> None,
     author |-> None, narrator |-> None, series |-> None,
     series_part |-> None, description |-> None, cover_url |-> None,
     cover_path |-> None]

AddTagged(tf, id, path) ==
    [k \in DOMAIN tf \cup {id} |-> IF k = id THEN NewTagged(path) ELSE tf[k]]

\* the last call of apply_metadata_to_file: the record it was given, its
\* result, whether it wrote is_tagged, whether its move to the library
\* failed, the job that made the file, the file's path before the call and
\* the backups the call removed
\* the last call of an operation that only computes: its name, its
\* arguments and what it returned
NoCall == [op |-> "none", arg |-> <<>>, ret |-> <<>>]

NoApply ==
    [fid |-> 0, ok |-> FALSE, marked |-> FALSE, moveFailed |-> FALSE,
     owner |-> 0, pre |-> NoPath, reclaimed |-> {}]

Init ==
    /\ jobs = [k \in {} |-> NewJob(CONVERSION, <<>>, 0)]
    /\ nextJob = 1
    /\ task = [j \in JobIds |-> IdleTask]
    /\ loop = 0
    /\ disk = [p \in {} |-> 0]
    /\ tagged = [k \in {} |-> NewTagged(NoPath)]
    /\ nextFile = 1
    /\ now = 0
    /\ lastApply = NoApply
    /\ call = NoCall

SetMin(S) == CHOOSE x \in S : \A y \in S : x <= y
Range(s) == {s[i] : i \in DOMAIN s}

\* ------------------------------------------------------ POST /convert
\* a request: distinct folders in the order of the request's mapping, each
\* with an optional output file name
FolderLists ==
    {fs \in UNION {[1..n -> Folders] : n \in 1..MaxJobs} :
        \A a, b \in DOMAIN fs : a # b => fs[a] # fs[b]}
RequestedNames == {None} \cup {Some(c) : c \in CustomNames}

\* the folders of a request that fail its validation
Rejected(fs) ==
    {i \in DOMAIN fs : ~FolderExists(fs[i]) \/ get_mp3_files(fs[i]) = <<>>}

\* start_conversion: a job and a background task per folder; the first
\* invalid folder raises, after the jobs of the folders before it were made
StartConversion(fs, rq) ==
    LET bad == Rejected(fs)
        k == IF bad = {} THEN Len(fs) ELSE SetMin(bad) - 1
        new == nextJob..(nextJob + k - 1)
    IN /\ loop = 0
       /\ k >= 1
       /\ nextJob + k - 1 <= MaxJobs
       /\ jobs' = [id \in DOMAIN jobs \cup new |->
                     IF id \in new
                     THEN NewJob(CONVERSION, <<fs[id - nextJob + 1]>>, now)
                     ELSE jobs[id]]
       /\ nextJob' = nextJob + k
       /\ task' = [j \in JobIds |->
                     IF bad = {} /\ j \in new
                     THEN [IdleTask EXCEPT
                             !.pc = "scheduled",
                             !.after = IF j = nextJob THEN 0 ELSE j - 1,
                             !.folders = <<fs[j - nextJob + 1]>>,
                             !.requested = rq[j - nextJob + 1]]
                     ELSE task[j]]
       /\ UNCHANGED <<loop, disk, tagged, nextFile, now, lastApply, call>>

\* ------------------------------------------- _run_conversion_task, entry
RunConversionTask(j) ==
    /\ task[j].pc = "scheduled"
    /\ Finished(task[j].after)
    /\ loop = 0
    /\ jobs' = UpdateJob(jobs, j, [NoUpdate EXCEPT !.status = Some(RUNNING),
                                                   !.start_time = Some(now)], now)
    /\ task' = [task EXCEPT ![j].pc = "entered"]
    /\ loop' = j
    /\ UNCHANGED <<nextJob, disk, tagged, nextFile, now, lastApply, call>>

\* ------------------------------------------------------- convert_folders
ConvertBegin(j) ==
    /\ task[j].pc = "entered"
    /\ loop = j
    /\ jobs' = UpdateJob(jobs, j, [NoUpdate EXCEPT !.status = Some(RUNNING),
                                                   !.start_time = Some(now),
                                                   !.progress = Some(Q(0))], now)
    /\ task' = [task EXCEPT ![j].pc = "backup",
                            ![j].out = OutputName(task[j].folders, task[j].requested, now)]
    /\ UNCHANGED <<nextJob, loop, disk, tagged, nextFile, now, lastApply, call>>

\* the folders whose copytree fails: an I/O failure at failAt, or a
\* destination that exists already
SnapshotFails(fs, d, t, failAt) ==
    {i \in DOMAIN fs : \/ i = failAt
                       \/ BackupPath(fs[i], t) \in DOMAIN d
                       \/ \E k \in 1..(i - 1) : fs[k] = fs[i]}

ConvertBackupsSkipped(j, failAt) ==
    /\ task[j].pc = "backup"
    /\ loop = j
    /\ task' = [task EXCEPT ![j].pc = "collect"]
    /\ UNCHANGED <<jobs, nextJob, loop, disk, tagged, nextFile, now, lastApply, call>>

ConvertBackups(j, failAt) ==
    LET fs == task[j].folders
        bad == SnapshotFails(fs, disk, now, failAt)
        n == IF bad = {} THEN Len(fs) ELSE SetMin(bad) - 1
        made == [i \in 1..n |-> BackupPath(fs[i], now)]
    IN /\ task[j].pc = "backup"
       /\ loop = j
       /\ disk' = [p \in DOMAIN disk \cup Range(made) |->
                     IF p \in DOMAIN disk THEN disk[p] ELSE j]
       /\ IF bad = {}
          THEN /\ jobs' = UpdateJob(jobs, j,
                             [NoUpdate EXCEPT !.backup_paths = Some(made)], now)
               /\ task' = [task EXCEPT ![j].pc = "collect"]
          ELSE /\ jobs' = jobs
               /\ task' = [task EXCEPT ![j].pc = "except",
                                       ![j].err = Some("snapshot")]
       /\ UNCHANGED <<nextJob, loop, tagged, nextFile, now, lastApply, call>>

ConvertCollect(j) ==
    LET files == CollectFiles(task[j].folders)
    IN /\ task[j].pc = "collect"
       /\ loop = j
       /\ IF files = <<>>
          THEN /\ task' = [task EXCEPT ![j].pc = "except",
                                       ![j].err = Some("no files")]
               /\ loop' = j
          ELSE /\ task' = [task EXCEPT ![j].pc = "spawn", ![j].files = files]
               /\ loop' = 0
       /\ UNCHANGED <<jobs, nextJob, disk, tagged, nextFile, now, lastApply, call>>

\* create_subprocess_exec returns or raises; on return the estimator task is
\* created and the pipeline waits for the process
ConvertSpawned(j, ok) ==
    /\ task[j].pc = "spawn"
    /\ loop = 0
    /\ IF ok
       THEN /\ task' = [task EXCEPT ![j].pc = "waiting", ![j].est = "created"]
            /\ loop' = 0
       ELSE /\ task' = [task EXCEPT ![j].pc = "except", ![j].err = Some("spawn")]
            /\ loop' = j
    /\ UNCHANGED <<jobs, nextJob, disk, tagged, nextFile, now, lastApply, call>>

\* the encoder process exits; a zero exit leaves the output file, a
\* non-zero one may leave a partial file
EncoderExit(j, rc, partial) ==
    /\ task[j].pc = "waiting"
    /\ task[j].rc = None
    /\ loop = 0
    /\ task' = [task EXCEPT ![j].rc = Some(rc)]
    /\ disk' = IF rc = 0 \/ partial
               THEN Put(disk, ProcessingPath(task[j].out), j) ELSE disk
    /\ UNCHANGED <<jobs, nextJob, loop, tagged, nextFile, now, lastApply, call>>

\* _track_ffmpeg_progress up to its first sleep
EstimatorStart(j) ==
    /\ task[j].est = "created"
    /\ loop = 0
    /\ jobs' = UpdateJob(jobs, j, [NoUpdate EXCEPT !.progress = Some(Q(0))], now)
    /\ task' = [task EXCEPT
                  ![j].est = IF EstimatorLoops(task[j].rc) THEN "sleeping" ELSE "done",
                  ![j].last = Q(0), ![j].elapsed = 0]
    /\ UNCHANGED <<nextJob, loop, disk, tagged, nextFile, now, lastApply, call>>

\* one turn of the estimator's loop, e seconds after its start
EstimatorTick(j, e) ==
    LET p == EstimatorProgress(e, Len(task[j].files))
    IN /\ task[j].est = "sleeping"
       /\ loop = 0
       /\ e > task[j].elapsed
       /\ IF ~EstimatorLoops(task[j].rc)
          THEN /\ task' = [task EXCEPT ![j].est = "done"]
               /\ jobs' = jobs
          ELSE IF EstimatorWrites(p, task[j].last)
          THEN /\ jobs' = UpdateJob(jobs, j, [NoUpdate EXCEPT !.progress = Some(p)], now)
               /\ task' = [task EXCEPT ![j].last = p, ![j].elapsed = e]
          ELSE /\ jobs' = jobs
               /\ task' = [task EXCEPT ![j].elapsed = e]
       /\ UNCHANGED <<nextJob, loop, disk, tagged, nextFile, now, lastApply, call>>

NotCancelled(est) == est

\* progress_task.cancel(): a task that has not finished never runs again
Cancelled(est) == IF est \in {"created", "sleeping"} THEN "cancelled" ELSE est

\* process.wait() returned: cancel the estimator, force progress to 100,
\* then look at the exit code
ConvertAfterWait(j) ==
    /\ task[j].pc = "waiting"
    /\ task[j].rc # None
    /\ loop = 0
    /\ jobs' = UpdateJob(jobs, j, [NoUpdate EXCEPT !.progress = Some(Q(ProgressFinal))], now)
    /\ IF Val(task[j].rc) = 0
       THEN /\ task' = [task EXCEPT ![j].pc = "move", ![j].est = Cancelled(@)]
            /\ loop' = j
       ELSE /\ task' = [task EXCEPT ![j].pc = "readerr", ![j].est = Cancelled(@)]
            /\ loop' = 0
    /\ UNCHANGED <<nextJob, disk, tagged, nextFile, now, lastApply, call>>

\* the captured output was read: raise with it
ConvertReadErr(j) ==
    /\ task[j].pc = "readerr"
    /\ loop = 0
    /\ task' = [task EXCEPT ![j].pc = "except", ![j].err = Some("ffmpeg stderr")]
    /\ loop' = j
    /\ UNCHANGED <<jobs, nextJob, disk, tagged, nextFile, now, lastApply, call>>

\* move to the ready area and register the file
ConvertMove(j, ok) ==
    LET src == ProcessingPath(task[j].out)
        dst == ReadyPath(task[j].out)
    IN /\ task[j].pc = "move"
       /\ loop = j
       /\ IF ok /\ src \in DOMAIN disk
          THEN /\ disk' = Put(Remove(disk, {src}), dst, disk[src])
               /\ tagged' = AddTagged(tagged, nextFile, dst)
               /\ nextFile' = nextFile + 1
               /\ task' = [task EXCEPT ![j].pc = "complete"]
          ELSE /\ task' = [task EXCEPT ![j].pc = "except", ![j].err = Some("move")]
               /\ UNCHANGED <<disk, tagged, nextFile>>
       /\ UNCHANGED <<jobs, nextJob, loop, now, lastApply, call>>

ConvertComplete(j) ==
    /\ task[j].pc = "complete"
    /\ loop = j
    /\ jobs' = UpdateJob(jobs, j,
                  [NoUpdate EXCEPT !.status = Some(COMPLETED),
                                   !.end_time = Some(now),
                                   !.progress = Some(Q(ProgressFinal)),
                                   !.output_file = Some(ReadyPath(task[j].out))], now)
    /\ task' = [task EXCEPT ![j].pc = "returned"]
    /\ UNCHANGED <<nextJob, loop, disk, tagged, nextFile, now, lastApply, call>>

\* the except clause of convert_folders: mark FAILED ...
ConvertExcept(j) ==
    /\ task[j].pc = "except"
    /\ loop = j
    /\ jobs' = UpdateJob(jobs, j, [NoUpdate EXCEPT !.status = Some(FAILED),
                                                   !.end_time = Some(now),
                                                   !.log = task[j].err], now)
    /\ task' = [task EXCEPT ![j].pc = "cleanup"]
    /\ UNCHANGED <<nextJob, loop, disk, tagged, nextFile, now, lastApply, call>>

Backups(d) == {p \in DOMAIN d : p.area = "backup"}

CleanupNothing(j) == {}

CleanupPathsWithBackups(j) ==
    {ProcessingPath(task[j].out)} \cup {p \in Backups(disk) : disk[p] = j}

\* what the except clause deletes: the file in the processing area
CleanupPaths(j) == {ProcessingPath(task[j].out)}

\* ... then delete the processing file and raise again
ConvertCleanup(j) ==
    /\ task[j].pc = "cleanup"
    /\ loop = j
    /\ disk' = Remove(disk, CleanupPaths(j))
    /\ task' = [task EXCEPT ![j].pc = "raised"]
    /\ UNCHANGED <<jobs, nextJob, loop, tagged, nextFile, now, lastApply, call>>

WrapperErrorUnset(pc, err) == None

WrapperErrorLost(pc, err) == Some("NoneType")

\* --------------------------------------- _run_conversion_task, after the call
\* convert_folders returns None, so reading job.backup_paths raises; like an
\* exception of convert_folders it reaches the wrapper's except clause
WrapperError(pc, err) == IF pc = "returned" THEN Some("NoneType") ELSE err

RunConversionTaskExcept(j) ==
    /\ task[j].pc \in {"returned", "raised"}
    /\ loop = j
    /\ jobs' = UpdateJob(jobs, j,
                  [NoUpdate EXCEPT !.status = Some(FAILED),
                                   !.end_time = Some(now),
                                   !.log = WrapperError(task[j].pc, task[j].err)], now)
    /\ task' = [task EXCEPT ![j] = DoneTask]
    /\ loop' = 0
    /\ UNCHANGED <<nextJob, disk, tagged, nextFile, now, lastApply, call>>

\* ---------------------------------------------------------------- catalog
Asins == {"a1", "a2"}

\* what get_book_details extracts: "a1" is a book of a series with a cover,
\* "a2" a book with neither series, narrator, description nor cover
Book(asin) ==
    IF asin = "a1"
    THEN [asin |-> "a1", title |-> "T1", author |-> "Au", narrator |-> "Na",
          series |-> "S", series_part |-> "1", description |-> "D",
          cover_url |-> "u1"]
    ELSE [asin |-> asin, title |-> "T2", author |-> "Au", narrator |-> "",
          series |-> "", series_part |-> "", description |-> "",
          cover_url |-> ""]

\* move_to_library's destination
LibraryPath(m) == Path("library", <<m.author, m.series, m.title>>, 0)

CoverPathAlways(m, coverOk) == Some(m.asin)

\* download_cover: None without a URL or when the download fails
CoverPath(m, coverOk) ==
    IF m.cover_url # "" /\ coverOk THEN Some(m.asin) ELSE None

\* shutil.rmtree on path p: it raises for the paths of failing and leaves
\* them on the disk
RmTree(d, p, failing) ==
    IF p \in failing THEN [disk |-> d, exc |-> TRUE]
    ELSE [disk |-> Remove(d, {p}), exc |-> FALSE]

RECURSIVE CleanupUntilFailure(_, _, _)
CleanupUntilFailure(d, paths, failing) ==
    IF paths = <<>> THEN [disk |-> d, raised |-> FALSE]
    ELSE IF Head(paths) \notin DOMAIN d
    THEN CleanupUntilFailure(d, Tail(paths), failing)
    ELSE LET r == RmTree(d, Head(paths), failing)
         IN IF r.exc THEN [disk |-> r.disk, raised |-> TRUE]
            ELSE CleanupUntilFailure(r.disk, Tail(paths), failing)

RECURSIVE CleanupBackupFiles(_, _, _)
\* utils.cleanup_backup_files: every path of the list in turn, the ones
\* that exist are removed, an exception is caught inside the loop
CleanupBackupFiles(d, paths, failing) ==
    IF paths = <<>> THEN [disk |-> d, raised |-> FALSE]
    ELSE IF Head(paths) \notin DOMAIN d
    THEN CleanupBackupFiles(d, Tail(paths), failing)
    ELSE CleanupBackupFiles(RmTree(d, Head(paths), failing).disk,
                            Tail(paths), failing)

\* the jobs cleanup_backup_files_for_output selects from
BackupJobs(js, out) ==
    {k \in DOMAIN js : /\ js[k].job_type = CONVERSION
                       /\ js[k].output_file = Some(out)
                       /\ js[k].status = COMPLETED}

\* cleanup_backup_files_for_output with cleanup_backup_files: the paths
\* removed for the selected job (pick = 0: no job matched)
Reclaimed(js, d, pick) ==
    IF pick # 0 /\ IsSet(js[pick].backup_paths)
    THEN DOMAIN d \ DOMAIN CleanupBackupFiles(d, Val(js[pick].backup_paths), {}).disk
    ELSE {}

\* move_to_library: the new path; a failed move is caught and yields the
\* old path
MovedPath(orig, m, moveOk) == IF moveOk THEN LibraryPath(m) ELSE orig

\* the record apply_metadata_to_file writes
TaggedRecord(newPath, m, cover) ==
    [file_path |-> newPath, is_tagged |-> TRUE, asin |-> Some(m.asin),
     title |-> Some(m.title), author |-> Some(m.author),
     narrator |-> Some(m.narrator), series |-> Some(m.series),
     series_part |-> Some(m.series_part),
     description |-> Some(m.description), cover_url |-> Some(m.cover_url),
     cover_path |-> cover]

ArtifactAssumed(d, path) == TRUE

\* "if not file_path.exists()"
ArtifactExists(d, path) == path \in DOMAIN d

\* apply_metadata_to_file: its result, and the tagged files, disk and
\* record of the call after it
ApplyMetadata(fid, m, coverOk, tagOk, moveOk, pick) ==
    IF fid \notin DOMAIN tagged
    THEN [ok |-> FALSE, tagged |-> tagged, disk |-> disk,
          last |-> [NoApply EXCEPT !.fid = fid]]
    ELSE
    LET orig == tagged[fid].file_path
        owner == IF orig \in DOMAIN disk THEN disk[orig] ELSE 0
        new == MovedPath(orig, m, moveOk)
        moved == IF moveOk /\ new # orig
                 THEN Put(Remove(disk, {orig}), new, owner) ELSE disk
        gone == Reclaimed(jobs, moved, pick)
    IN IF ~ArtifactExists(disk, orig) \/ ~tagOk
       THEN [ok |-> FALSE, tagged |-> tagged, disk |-> disk,
             last |-> [NoApply EXCEPT !.fid = fid, !.owner = owner, !.pre = orig]]
       ELSE [ok |-> TRUE,
             tagged |-> [tagged EXCEPT ![fid] = TaggedRecord(new, m, CoverPath(m, coverOk))],
             disk |-> Remove(moved, gone),
             last |-> [fid |-> fid, ok |-> TRUE, marked |-> TRUE,
                       moveFailed |-> ~moveOk, owner |-> owner, pre |-> orig,
                       reclaimed |-> gone]]

PickOk(out, pick) ==
    IF BackupJobs(jobs, out) = {} THEN pick = 0 ELSE pick \in BackupJobs(jobs, out)

\* the path of record fid, if there is one
RecordedPath(fid) ==
    IF fid \in DOMAIN tagged THEN tagged[fid].file_path ELSE NoPath

\* POST /files/{file_id}/apply, with book details found; an unknown file
\* id is answered 404 and changes nothing
ApplyMetadataEndpoint(fid, asin, coverOk, tagOk, moveOk, pick) ==
    LET r == ApplyMetadata(fid, Book(asin), coverOk, tagOk, moveOk, pick)
    IN /\ loop = 0
       /\ PickOk(RecordedPath(fid), pick)
       /\ tagged' = r.tagged
       /\ disk' = r.disk
       /\ lastApply' = r.last
       /\ UNCHANGED <<jobs, nextJob, task, loop, nextFile, now, call>>

\* ------------------------------------------------------ POST /jobs/tagging
ArtifactAreas == {"processing", "ready", "library"}

CreateTaggingJob(path, asin) ==
    /\ loop = 0
    /\ path \in DOMAIN disk
    /\ path.area \in ArtifactAreas
    /\ nextJob <= MaxJobs
    /\ jobs' = AddJob(jobs, nextJob, TAGGING, <<path>>, now)
    /\ nextJob' = nextJob + 1
    /\ task' = [task EXCEPT ![nextJob] =
                  [IdleTask EXCEPT !.pc = "t_scheduled", !.path = path, !.asin = asin]]
    /\ UNCHANGED <<loop, disk, tagged, nextFile, now, lastApply, call>>

\* --------------------------------------------------------- _run_tagging_task
RunTaggingTask(j) ==
    /\ task[j].pc = "t_scheduled"
    /\ loop = 0
    /\ jobs' = UpdateJob(jobs, j, [NoUpdate EXCEPT !.status = Some(RUNNING),
                                                   !.start_time = Some(now)], now)
    /\ task' = [task EXCEPT ![j].pc = "t_running"]
    /\ loop' = j
    /\ UNCHANGED <<nextJob, disk, tagged, nextFile, now, lastApply, call>>

\* the records get_tagged_file_by_path chooses from
ByPath(path) == {f \in DOMAIN tagged : tagged[f].file_path = path}

OtherError == "other"

\* the text of the exception raised when get_book_details returns None
NoDetailsError == "no book details"

\* without an ASIN nothing is resolved; with one, details that are not
\* found raise, and details that are found are applied to the record of
\* the path if there is one; the result of the application is dropped
TaggingResolve(j, found, fid, coverOk, tagOk, moveOk, pick) ==
    /\ task[j].pc = "t_running"
    /\ loop = j
    /\ IF task[j].asin = None
       THEN /\ task' = [task EXCEPT ![j].pc = "t_complete"]
            /\ UNCHANGED <<disk, tagged, lastApply, call>>
       ELSE IF ~found
       THEN /\ task' = [task EXCEPT ![j].pc = "t_except",
                                    ![j].err = Some(NoDetailsError)]
            /\ UNCHANGED <<disk, tagged, lastApply, call>>
       ELSE IF ByPath(task[j].path) = {}
       THEN /\ task' = [task EXCEPT ![j].pc = "t_complete"]
            /\ UNCHANGED <<disk, tagged, lastApply, call>>
       ELSE LET r == ApplyMetadata(fid, Book(Val(task[j].asin)),
                                   coverOk, tagOk, moveOk, pick)
            IN /\ fid \in ByPath(task[j].path)
               /\ PickOk(task[j].path, pick)
               /\ task' = [task EXCEPT ![j].pc = "t_complete"]
               /\ tagged' = r.tagged
               /\ disk' = r.disk
               /\ lastApply' = r.last
    /\ UNCHANGED <<jobs, nextJob, loop, nextFile, now, call>>

TaggingComplete(j) ==
    /\ task[j].pc = "t_complete"
    /\ loop = j
    /\ jobs' = UpdateJob(jobs, j, [NoUpdate EXCEPT !.status = Some(COMPLETED),
                                                   !.end_time = Some(now)], now)
    /\ task' = [task EXCEPT ![j] = DoneTask]
    /\ loop' = 0
    /\ UNCHANGED <<nextJob, disk, tagged, nextFile, now, lastApply, call>>

TaggingExcept(j) ==
    /\ task[j].pc = "t_except"
    /\ loop = j
    /\ jobs' = UpdateJob(jobs, j, [NoUpdate EXCEPT !.status = Some(FAILED),
                                                   !.end_time = Some(now),
                                                   !.log = task[j].err], now)
    /\ task' = [task EXCEPT ![j] = DoneTask]
    /\ loop' = 0
    /\ UNCHANGED <<nextJob, disk, tagged, nextFile, now, lastApply, call>>

\* ------------------------------------------------- cli: files tag <file_id>
\* creates the tagging job and starts nothing
CliTagFile(fid) ==
    /\ fid \in DOMAIN tagged
    /\ ~tagged[fid].is_tagged
    /\ nextJob <= MaxJobs
    /\ jobs' = AddJob(jobs, nextJob, TAGGING, <<tagged[fid].file_path>>, now)
    /\ nextJob' = nextJob + 1
    /\ UNCHANGED <<task, loop, disk, tagged, nextFile, now, lastApply, call>>

\* ------------------------------------------------------ DELETE /jobs/{id}
DeleteJob(j) ==
    /\ loop = 0
    /\ j \in DOMAIN jobs
    /\ jobs' = Remove(jobs, {j})
    /\ UNCHANGED <<nextJob, task, loop, disk, tagged, nextFile, now, lastApply, call>>

\* ------------------------------- clear_old_jobs (POST /jobs/clear, cli)
SweepDays == {-1, 0, 1}

ClearOldJobs(days) ==
    /\ OldJobs(jobs, days, now) # {}
    /\ jobs' = SweepResult(jobs, days, now).jobs
    /\ UNCHANGED <<nextJob, task, loop, disk, tagged, nextFile, now, lastApply, call>>

\* ------------------------------------------------------------------ clock
Tick ==
    /\ loop = 0
    /\ now < MaxTime
    /\ now' = now + 1
    /\ UNCHANGED <<jobs, nextJob, task, loop, disk, tagged, nextFile, lastApply, call>>

Next ==
    \/ \E fs \in FolderLists : \E rq \in [DOMAIN fs -> RequestedNames] :
          StartConversion(fs, rq)
    \/ \E j \in JobIds : RunConversionTask(j)
    \/ \E j \in JobIds : ConvertBegin(j)
    \/ \E j \in JobIds : \E failAt \in 0..Len(task[j].folders) : ConvertBackups(j, failAt)
    \/ \E j \in JobIds : ConvertCollect(j)
    \/ \E j \in JobIds : \E ok \in BOOLEAN : ConvertSpawned(j, ok)
    \/ \E j \in JobIds : \E rc \in {0, 1} : \E partial \in BOOLEAN : EncoderExit(j, rc, partial)
    \/ \E j \in JobIds : EstimatorStart(j)
    \/ \E j \in JobIds : \E e \in ElapsedSamples : EstimatorTick(j, e)
    \/ \E j \in JobIds : ConvertAfterWait(j)
    \/ \E j \in JobIds : ConvertReadErr(j)
    \/ \E j \in JobIds : \E ok \in BOOLEAN : ConvertMove(j, ok)
    \/ \E j \in JobIds : ConvertComplete(j)
    \/ \E j \in JobIds : ConvertExcept(j)
    \/ \E j \in JobIds : ConvertCleanup(j)
    \/ \E j \in JobIds : RunConversionTaskExcept(j)
    \/ \E fid \in DOMAIN tagged : \E asin \in Asins :
          \E coverOk, tagOk, moveOk \in BOOLEAN : \E pick \in {0} \cup JobIds :
             ApplyMetadataEndpoint(fid, asin, coverOk, tagOk, moveOk, pick)
    \/ \E path \in DOMAIN disk : \E asin \in {None} \cup {Some(a) : a \in Asins} :
          CreateTaggingJob(path, asin)
    \/ \E j \in JobIds : RunTaggingTask(j)
    \/ \E j \in JobIds : \E found \in BOOLEAN : \E fid \in {0} \cup DOMAIN tagged :
          \E coverOk, tagOk, moveOk \in BOOLEAN : \E pick \in {0} \cup JobIds :
             TaggingResolve(j, found, fid, coverOk, tagOk, moveOk, pick)
    \/ \E j \in JobIds : TaggingComplete(j)
    \/ \E j \in JobIds : TaggingExcept(j)
    \/ \E fid \in DOMAIN tagged : CliTagFile(fid)
    \/ \E j \in JobIds : DeleteJob(j)
    \/ \E days \in SweepDays : ClearOldJobs(days)
    \/ Tick

Spec == Init /\ [][Next]_vars
\* ================================================================= claims
\* the status changes the lifecycle allows
StatusStep(a, b) ==
    \/ a = b
    \/ a = QUEUED /\ b = RUNNING
    \/ a = RUNNING /\ b \in Terminal

\* C1: a job's status changes only from QUEUED to RUNNING and from RUNNING
\* to COMPLETED or FAILED, and a COMPLETED or FAILED status never changes.
C1_StatusOnlyAdvances ==
    [][\A k \in DOMAIN jobs \cap DOMAIN jobs' :
          StatusStep(jobs[k].status, jobs'[k].status)]_vars

\* a background task is scheduled for job k and has not started
Scheduled(k) == task[k].pc \in {"scheduled", "t_scheduled"}

\* C2: every created job is launched and eventually COMPLETED or FAILED,
\* whichever entry point created it; only a launched task writes a job's
\* status, so a QUEUED job must have a task scheduled for it.
C2_QueuedJobIsScheduled ==
    \A k \in DOMAIN jobs : jobs[k].status = QUEUED => Scheduled(k)

\* C3: a backup leaves the disk only in a step in which apply_metadata
\* succeeds on the output of the job that made it; the pipeline, the
\* deletion of a job and the sweep remove none.
C3_BackupLeavesOnlyByApply ==
    [][\A p \in Backups(disk) \ Backups(disk') :
          /\ lastApply'.ok
          /\ p \in lastApply'.reclaimed
          /\ disk[p] = lastApply'.owner]_vars

\* a backup whose job was deleted or swept and a backup whose job failed
\* are both on the disk
C3_BackupsOutliveJobs ==
    /\ \E p \in Backups(disk) : disk[p] \notin DOMAIN jobs
    /\ \E p \in Backups(disk) :
          disk[p] \in DOMAIN jobs /\ jobs[disk[p]].status = FAILED

\* C4: when apply_metadata has succeeded on the output of a conversion job,
\* no backup made for that job is left on the disk.
C4_ApplyLeavesNoBackup ==
    (lastApply.ok /\ lastApply.owner # 0) =>
        \A p \in Backups(disk) : disk[p] # lastApply.owner

\* C5: after apply_metadata has succeeded on the output of a conversion
\* job, the job's backup_paths lists nothing.
C5_BackupPathsCleared ==
    (lastApply.ok /\ lastApply.owner \in DOMAIN jobs) =>
        \/ jobs[lastApply.owner].backup_paths = None
        \/ jobs[lastApply.owner].backup_paths = Some(<<>>)

\* the bibliographic fields of a record that hold a value
Biblio ==
    {"asin", "title", "author", "narrator", "series", "series_part",
     "description", "cover_url", "cover_path"}
FieldsSet(r) == {f \in Biblio : IsSet(r[f])}

C7_FailedMoveFailsApply ==
    lastApply.moveFailed =>
        ~lastApply.ok /\ ~lastApply.marked /\ lastApply.reclaimed = {}

\* C8: the files handed to the encoder are the folders' files in the order
\* of the folders, each folder's files in the order of their paths.
C8_FilesInPathOrder ==
    \A j \in JobIds :
        task[j].files # <<>> => task[j].files = Flatten(task[j].folders)

\* C9: while a conversion job is RUNNING its stored progress never
\* decreases, whoever writes it.
C9_ProgressNeverDecreases ==
    [][\A k \in DOMAIN jobs \cap DOMAIN jobs' :
          (jobs[k].job_type = CONVERSION /\ jobs[k].status = RUNNING)
             => QLeq(jobs[k].progress, jobs'[k].progress)]_vars

\* a RUNNING job at 100 after its estimator wrote a value of its curve
C9_EstimatorThenFinal ==
    \E k \in DOMAIN jobs :
        /\ jobs[k].status = RUNNING
        /\ QEq(jobs[k].progress, Q(ProgressFinal))
        /\ ~QEq(task[k].last, Q(0))

\* C10: a COMPLETED job, conversion or tagging, has progress 100.
C10_CompletedAtFinal ==
    \A k \in DOMAIN jobs :
        jobs[k].status = COMPLETED => QEq(jobs[k].progress, Q(ProgressFinal))

\* the encoder of task j exited with a code other than 0
EncoderFailed(j) == IsSet(task[j].rc) /\ Val(task[j].rc) # 0

\* C11: when the encoder exits with a non-zero code the job ends FAILED,
\* its log holds the encoder's captured error text and no output file of
\* the job is left in the processing area.
C11_EncoderFailureEndsFailed ==
    [][\A j \in JobIds :
          (EncoderFailed(j) /\ task'[j].pc = "done" /\ j \in DOMAIN jobs')
             => /\ jobs'[j].status = FAILED
                /\ jobs'[j].log = Some("ffmpeg stderr")
                /\ ProcessingPath(task[j].out) \notin DOMAIN disk']_vars

\* a task whose encoder exited with a code other than 0 has raised out of
\* convert_folders and its job's log holds the error text
C11_EncoderFailedAndRaised ==
    \E j \in JobIds :
        /\ EncoderFailed(j)
        /\ task[j].pc = "raised"
        /\ j \in DOMAIN jobs
        /\ jobs[j].log = Some("ffmpeg stderr")

\* the snapshot of an input folder of task j failed
SnapshotFailed(j) == task[j].err = Some("snapshot")

\* C12: when the snapshot of an input folder fails, the encoder is never
\* started for the job and the job ends FAILED with the snapshot error in
\* its log.
C12_SnapshotFailureEndsFailed ==
    [][\A j \in JobIds :
          SnapshotFailed(j) =>
             /\ task'[j].est = "none" /\ task'[j].rc = None
             /\ (task'[j].pc = "done" /\ j \in DOMAIN jobs')
                   => /\ jobs'[j].status = FAILED
                      /\ jobs'[j].log = Some("snapshot")]_vars

\* a task whose snapshot failed has raised out of convert_folders
C12_SnapshotFailedAndRaised ==
    \E j \in JobIds :
        /\ SnapshotFailed(j)
        /\ task[j].pc = "raised"
        /\ j \in DOMAIN jobs
        /\ jobs[j].status = FAILED

\* C13: a tagging job given a catalog identifier becomes COMPLETED only
\* when apply_metadata succeeded on the record of its path and that record
\* is tagged.
C13_CompletedOnlyIfApplied ==
    [][\A j \in JobIds :
          (/\ task[j].pc = "t_complete"
           /\ IsSet(task[j].asin)
           /\ j \in DOMAIN jobs'
           /\ jobs'[j].status = COMPLETED)
             => /\ lastApply.ok
                /\ lastApply.pre = task[j].path
                /\ lastApply.fid \in DOMAIN tagged
                /\ tagged[lastApply.fid].is_tagged]_vars

\* C14: a tagging job given a catalog identifier for which no details are
\* found leaves the tagged files and the disk as they are and ends FAILED
\* with the error in its log.
C14_NoDetailsEndsFailed ==
    [][\A j \in JobIds :
          /\ (task[j].pc = "t_running" /\ task'[j].pc = "t_except")
                => tagged' = tagged /\ disk' = disk
          /\ (task[j].pc = "t_except" /\ task'[j].pc = "done")
                => /\ tagged' = tagged /\ disk' = disk
                   /\ j \in DOMAIN jobs'
                         => /\ jobs'[j].status = FAILED
                            /\ jobs'[j].log = Some("no book details")]_vars

\* a tagging job given an identifier has FAILED with that error while the
\* record of its path is untagged and its file is where it was
C14_FailedJobFileUntouched ==
    \E j \in DOMAIN jobs : \E f \in DOMAIN tagged :
        /\ jobs[j].job_type = TAGGING
        /\ jobs[j].status = FAILED
        /\ jobs[j].log = Some("no book details")
        /\ jobs[j].input_folders = <<tagged[f].file_path>>
        /\ ~tagged[f].is_tagged
        /\ tagged[f].file_path \in DOMAIN disk

\* ------------------------------------------- apply_metadata on its own
\* The state after one conversion of folder "A" run by the server: the job
\* FAILED by its wrapper, the file in the ready area with its record, the
\* backup on the disk. From there metadata is applied to known and unknown
\* file ids, the job is deleted, and a file is removed from outside.
FileIds == 1..MaxJobs

ConvertedName == OutputName(<<"A">>, None, 0)

ConvertedJob ==
    [NewJob(CONVERSION, <<"A">>, 0) EXCEPT
        !.status = FAILED,
        !.output_file = Some(ReadyPath(ConvertedName)),
        !.backup_paths = Some(<<BackupPath("A", 0)>>),
        !.progress = Q(ProgressFinal),
        !.start_time = Some(0),
        !.end_time = Some(0),
        !.log = WrapperError("returned", None)]

ApplyInit ==
    /\ jobs = [k \in {1} |-> ConvertedJob]
    /\ nextJob = 2
    /\ task = [j \in JobIds |-> IF j = 1 THEN DoneTask ELSE IdleTask]
    /\ loop = 0
    /\ disk = [p \in {ReadyPath(ConvertedName), BackupPath("A", 0)} |-> 1]
    /\ tagged = [k \in {1} |-> NewTagged(ReadyPath(ConvertedName))]
    /\ nextFile = 2
    /\ now = 0
    /\ lastApply = NoApply
    /\ call = NoCall

\* a file of the ready area or of the library is removed by something other
\* than this program
ArtifactLost(p) ==
    /\ p \in DOMAIN disk
    /\ p.area \in {"ready", "library"}
    /\ disk' = Remove(disk, {p})
    /\ UNCHANGED <<jobs, nextJob, task, loop, tagged, nextFile, now, lastApply, call>>

ApplyNext ==
    \/ \E fid \in FileIds : \E asin \in Asins :
          \E coverOk, tagOk, moveOk \in BOOLEAN : \E pick \in {0} \cup JobIds :
             ApplyMetadataEndpoint(fid, asin, coverOk, tagOk, moveOk, pick)
    \/ \E p \in DOMAIN disk : ArtifactLost(p)
    \/ \E j \in JobIds : DeleteJob(j)

ApplySpec == ApplyInit /\ [][ApplyNext]_vars

\* ApplyInit is a state the program reaches
ApplyInitReached ==
    /\ jobs = [k \in {1} |-> ConvertedJob]
    /\ disk = [p \in {ReadyPath(ConvertedName), BackupPath("A", 0)} |-> 1]
    /\ tagged = [k \in {1} |-> NewTagged(ReadyPath(ConvertedName))]
    /\ task[1] = DoneTask /\ loop = 0 /\ now = 0 /\ lastApply = NoApply

\* file id fid has no record, or the file of its record is not on the disk
NothingToTag(fid) ==
    fid \notin DOMAIN tagged \/ tagged[fid].file_path \notin DOMAIN disk

\* C15: apply_metadata on a file id without a record, or whose recorded
\* file is gone, reports failure and changes no record, file, job or
\* backup.
C15_NothingToTagChangesNothing ==
    [][(lastApply' # lastApply /\ NothingToTag(lastApply'.fid))
          => /\ ~lastApply'.ok
             /\ tagged' = tagged /\ disk' = disk /\ jobs' = jobs]_vars

\* metadata was applied without success to an unknown file id while a
\* record's file is gone and the job's backup is on the disk
C15_UnknownIdAndLostFile ==
    /\ lastApply.fid \notin DOMAIN tagged /\ lastApply.fid # 0
    /\ ~lastApply.ok
    /\ \E f \in DOMAIN tagged : tagged[f].file_path \notin DOMAIN disk
    /\ Backups(disk) # {}

\* C16: a submission rejected for a missing folder or a folder without
\* eligible files creates no job, also when only a later folder of the
\* request is invalid.
C16_RejectedCreatesNoJob ==
    [][\A fs \in FolderLists : \A rq \in [DOMAIN fs -> RequestedNames] :
          (Rejected(fs) # {} /\ StartConversion(fs, rq))
             => DOMAIN jobs' = DOMAIN jobs]_vars

\* ----------------------------------------------- clear_old_jobs on its own
\* Stores of up to MaxJobs jobs of any kind, status and creation time, at any
\* time of the call, swept with every days argument.
SweepMaxTime == 5

StoredJob(type, st, t) == [NewJob(type, <<>>, t) EXCEPT !.status = st]

Stores(t) ==
    UNION {[1..n -> {StoredJob(type, st, c) :
                        type \in {CONVERSION, TAGGING},
                        st \in {QUEUED, RUNNING, COMPLETED, FAILED},
                        c \in 0..t}] : n \in 0..MaxJobs}

SweepInit ==
    /\ now \in 0..SweepMaxTime
    /\ jobs \in Stores(now)
    /\ nextJob = Len(jobs) + 1
    /\ task = [j \in JobIds |-> IdleTask]
    /\ loop = 0
    /\ disk = [p \in {} |-> 0]
    /\ tagged = [k \in {} |-> NewTagged(NoPath)]
    /\ nextFile = 1
    /\ lastApply = NoApply
    /\ call = NoCall

SweepNext == \E days \in SweepDays : ClearOldJobs(days)

SweepSpec == SweepInit /\ [][SweepNext]_vars

\* a job was removed from the store
SomeJobGone == \E k \in 1..(nextJob - 1) : k \notin DOMAIN jobs

\* C17: a sweep never deletes a QUEUED or RUNNING job, whatever its age and
\* whatever the days argument.
C17_SweepKeepsUnfinished ==
    /\ [](\A days \in SweepDays : \A k \in DOMAIN jobs :
             jobs[k].status \notin Terminal
                => k \in DOMAIN SweepResult(jobs, days, now).jobs)
    /\ [][\A k \in DOMAIN jobs \ DOMAIN jobs' : jobs[k].status \in Terminal]_vars

\* after a sweep removed a job, a QUEUED or RUNNING job created more than a
\* day before the day of the call is still in the store
C17_OldUnfinishedKept ==
    /\ SomeJobGone
    /\ \E k \in DOMAIN jobs :
          /\ jobs[k].status \notin Terminal
          /\ jobs[k].created_at < DayStart(now) - TicksPerDay

\* the jobs a sweep removes from the current store, and the jobs it keeps
\* as they are
Swept(days) == DOMAIN jobs \ DOMAIN SweepResult(jobs, days, now).jobs
KeptAsIs(days) ==
    \A k \in DOMAIN SweepResult(jobs, days, now).jobs :
        SweepResult(jobs, days, now).jobs[k] = jobs[k]

\* C18 as stated: a sweep deletes exactly the COMPLETED and FAILED jobs
\* created more than `days` days before the time of the call and returns
\* their number.
C18_SweepsByAge ==
    \A days \in SweepDays :
        /\ Swept(days) =
              {k \in DOMAIN jobs : /\ jobs[k].status \in Terminal
                                   /\ jobs[k].created_at < now - days * TicksPerDay}
        /\ KeptAsIs(days)
        /\ SweepResult(jobs, days, now).count = Cardinality(Swept(days))

\* the calendar day of a time
DayOf(t) == t \div TicksPerDay

\* C18: a sweep deletes exactly the COMPLETED and FAILED jobs created on a
\* calendar day more than `days` days before the day of the call, leaves
\* every other job as it is and returns the number of jobs it deleted.
C18_SweepsByCalendarDay ==
    \A days \in SweepDays :
        /\ Swept(days) =
              {k \in DOMAIN jobs : /\ jobs[k].status \in Terminal
                                   /\ DayOf(jobs[k].created_at) < DayOf(now) - days}
        /\ KeptAsIs(days)
        /\ SweepResult(jobs, days, now).count = Cardinality(Swept(days))

\* after a sweep removed a job, a FAILED or COMPLETED job created earlier on
\* the day of the call is still in the store
C18_SameDayJobKept ==
    /\ SomeJobGone
    /\ \E k \in DOMAIN jobs :
          /\ jobs[k].status \in Terminal
          /\ jobs[k].created_at < now
          /\ DayOf(jobs[k].created_at) = DayOf(now)

\* ------------------------------------------------------ update_job's frame
\* partial updates: none of the fields, each field alone, all of them
UpdateFields ==
    {"status", "output_file", "backup_paths", "progress", "start_time",
     "end_time", "log"}

FullUpdate(t) ==
    [status |-> Some(FAILED), output_file |-> Some(NoPath),
     backup_paths |-> Some(<<>>), progress |-> Some(Q(50)),
     start_time |-> Some(t), end_time |-> Some(t), log |-> Some("text")]

PartialUpdates(t) ==
    {NoUpdate, FullUpdate(t)} \cup
    {[f \in UpdateFields |-> IF f = g THEN FullUpdate(t)[f] ELSE None] :
        g \in UpdateFields}

\* a task that runs for job j
Active(j) == task[j].pc \notin {"none", "scheduled", "t_scheduled", "done"}

\* C19: update_job for an id that is not in the store returns None and
\* leaves every job as it is.
C19_UnknownIdIsNoOp ==
    /\ [](\A id \in JobIds \ DOMAIN jobs : \A u \in PartialUpdates(now) :
             /\ UpdateJobReturn(jobs, id, u, now) = None
             /\ UpdateJob(jobs, id, u, now) = jobs)
    /\ [][\A j \in JobIds :
             (Active(j) /\ task'[j] # task[j] /\ j \notin DOMAIN jobs)
                => jobs' = jobs]_vars

\* a job deleted while it was queued: its task has since marked it as
\* running (nothing removes a running job while its task holds the loop)
C19_TaskOutlivedJob ==
    \E j \in JobIds :
        /\ j \notin DOMAIN jobs
        /\ loop = j
        /\ task[j].pc = "entered"

\* the value update_job stores in field f of job k for the update u
Updated(k, f, u) ==
    IF ~IsSet(u[f]) THEN jobs[k][f]
    ELSE IF f \in {"status", "progress"} THEN Val(u[f]) ELSE u[f]

\* C20: update_job on a job of the store changes the fields present in the
\* update and updated_at, and nothing else: not the absent fields, not the
\* job's kind, inputs or created_at, not another job.
C20_UpdateChangesOnlyGivenFields ==
    \A id \in DOMAIN jobs : \A u \in PartialUpdates(now) :
        LET js == UpdateJob(jobs, id, u, now)
        IN /\ DOMAIN js = DOMAIN jobs
           /\ \A k \in DOMAIN jobs \ {id} : js[k] = jobs[k]
           /\ \A f \in UpdateFields : js[id][f] = Updated(id, f, u)
           /\ js[id].updated_at = now
           /\ js[id].job_type = jobs[id].job_type
           /\ js[id].input_folders = jobs[id].input_folders
           /\ js[id].created_at = jobs[id].created_at
           /\ UpdateJobReturn(jobs, id, u, now) = Some(js[id])

\* a FAILED job updated after the day of its creation still has the start
\* time and backup paths that earlier updates gave it
C20_EarlierFieldsKept ==
    \E k \in DOMAIN jobs :
        /\ jobs[k].status = FAILED
        /\ IsSet(jobs[k].start_time) /\ IsSet(jobs[k].backup_paths)
        /\ IsSet(jobs[k].end_time)
        /\ jobs[k].updated_at > jobs[k].created_at

\* ------------------------------------------ cleanup_backup_files on its own
\* A completed conversion job whose backup_paths is any list of up to
\* ReclaimMaxLen of the paths below, on a disk holding any of them; the list
\* is reclaimed while any of the paths fail to delete.
ReclaimMaxLen == 3

ReclaimPaths == {BackupPath("A", 0), BackupPath("A", 1), BackupPath("M", 0)}

PathLists ==
    UNION {[1..n -> ReclaimPaths] : n \in 0..ReclaimMaxLen}

ReclaimJob(paths) ==
    [NewJob(CONVERSION, <<"A">>, 0) EXCEPT
        !.status = COMPLETED,
        !.output_file = Some(ReadyPath(ConvertedName)),
        !.backup_paths = Some(paths),
        !.progress = Q(ProgressFinal),
        !.start_time = Some(0),
        !.end_time = Some(0)]

ReclaimInit ==
    /\ \E paths \in PathLists : jobs = [k \in {1} |-> ReclaimJob(paths)]
    /\ nextJob = 2
    /\ task = [j \in JobIds |-> IF j = 1 THEN DoneTask ELSE IdleTask]
    /\ loop = 0
    /\ \E S \in SUBSET ReclaimPaths : disk = [p \in S |-> 1]
    /\ tagged = <<>>
    /\ nextFile = 1
    /\ now = 0
    /\ lastApply = NoApply
    /\ call = NoCall

\* the call of cleanup_backup_files with the paths of job j
ReclaimStep(j, failing) ==
    /\ j \in DOMAIN jobs
    /\ IsSet(jobs[j].backup_paths)
    /\ disk' = CleanupBackupFiles(disk, Val(jobs[j].backup_paths), failing).disk
    /\ lastApply' = [NoApply EXCEPT !.reclaimed = DOMAIN disk \ DOMAIN disk']
    /\ UNCHANGED <<jobs, nextJob, task, loop, tagged, nextFile, now, call>>

ReclaimNext ==
    \E j \in JobIds : \E failing \in SUBSET ReclaimPaths : ReclaimStep(j, failing)

ReclaimSpec == ReclaimInit /\ [][ReclaimNext]_vars

\* C21: cleanup_backup_files returns without raising, and removes every
\* path of its list that exists and can be deleted, whichever other paths
\* of the list do not exist or fail to delete; it removes nothing else.
C21_ReclaimAttemptsEveryPath ==
    /\ [](\A j \in DOMAIN jobs : \A failing \in SUBSET ReclaimPaths :
             IsSet(jobs[j].backup_paths) =>
                ~CleanupBackupFiles(disk, Val(jobs[j].backup_paths), failing).raised)
    /\ [][\A j \in JobIds : \A failing \in SUBSET ReclaimPaths :
             ReclaimStep(j, failing) =>
                DOMAIN disk \ DOMAIN disk' =
                   (Range(Val(jobs[j].backup_paths)) \cap DOMAIN disk) \ failing]_vars

\* a list was reclaimed of which the first path does not exist, the second
\* is still there because it could not be deleted, and the third is gone
C21_LaterPathReclaimed ==
    \E j \in DOMAIN jobs :
        LET paths == Val(jobs[j].backup_paths)
        IN /\ Len(paths) = 3
           /\ paths[1] \notin DOMAIN disk /\ paths[1] \notin lastApply.reclaimed
           /\ paths[2] \in DOMAIN disk
           /\ lastApply.reclaimed = {paths[3]}

\* conversion job j is COMPLETED in the store js
CompletedConversion(js, j) ==
    j \in DOMAIN js /\ js[j].job_type = CONVERSION /\ js[j].status = COMPLETED

\* an untagged record of the path out
Registered(out) ==
    \E f \in DOMAIN tagged : tagged[f].file_path = out /\ ~tagged[f].is_tagged

\* C22: a COMPLETED conversion job has its output_file set to a path of the
\* ready area where the file is, and an untagged record of that path; the
\* record is there before the job becomes COMPLETED.
C22_CompletedHasReadyArtifact ==
    /\ [](\A j \in DOMAIN jobs :
             CompletedConversion(jobs, j) =>
                /\ IsSet(jobs[j].output_file)
                /\ Val(jobs[j].output_file).area = "ready"
                /\ Val(jobs[j].output_file) \in DOMAIN disk
                /\ Registered(Val(jobs[j].output_file)))
    /\ [][\A j \in JobIds :
             (~CompletedConversion(jobs, j) /\ CompletedConversion(jobs', j))
                => /\ IsSet(jobs'[j].output_file)
                   /\ Registered(Val(jobs'[j].output_file))
                   /\ Val(jobs'[j].output_file) \in DOMAIN disk]_vars

\* a conversion job is COMPLETED and the file it made is no longer in the
\* processing area
C22_CompletedConversionSeen ==
    \E j \in DOMAIN jobs :
        /\ CompletedConversion(jobs, j)
        /\ task[j].pc = "returned"
        /\ ProcessingPath(task[j].out) \notin DOMAIN disk
        /\ ReadyPath(task[j].out) \in DOMAIN disk

\* C23: a job whose output_file is set is a COMPLETED conversion job; no
\* QUEUED, RUNNING or FAILED job and no tagging job has output_file set.
C23_OutputOnlyOnCompleted ==
    \A j \in DOMAIN jobs :
        IsSet(jobs[j].output_file) => CompletedConversion(jobs, j)

\* ------------------------------------------------------- search_audible
\* The catalog answers each endpoint, in the order of the list of locales,
\* with a failure of the request or with a list of products; processing a
\* malformed product raises (a null narrator name, a null title).
NumLocales == 3

MaxResults == 5

Locales == 1..NumLocales

SearchAsins == {"a1", "a2"}

Products == [asin : SearchAsins, ok : BOOLEAN]

\* six products with different identifiers, and the same list after a
\* repetition of its first product
LongAsins == <<"b1", "b2", "b3", "b4", "b5", "b6">>

LongList == [i \in DOMAIN LongAsins |-> [asin |-> LongAsins[i], ok |-> TRUE]]

RepeatingList == <<LongList[1]>> \o LongList

ProductLists ==
    UNION {[1..n -> Products] : n \in 0..2} \cup {LongList, RepeatingList}

Responses ==
    {[fail |-> TRUE, products |-> <<>>]} \cup
    {[fail |-> FALSE, products |-> ps] : ps \in ProductLists}

Catalogs == [Locales -> Responses]

Take(s, n) == SubSeq(s, 1, IF Len(s) < n THEN Len(s) ELSE n)

HasAsin(results, asin) == \E i \in DOMAIN results : results[i].asin = asin

RECURSIVE ProcessWithoutDedup(_, _, _)
ProcessWithoutDedup(results, prods, locale) ==
    IF prods = <<>> THEN [results |-> results, exc |-> FALSE]
    ELSE IF ~Head(prods).ok THEN [results |-> results, exc |-> TRUE]
    ELSE ProcessWithoutDedup(
            Append(results, [asin |-> Head(prods).asin, locale |-> locale]),
            Tail(prods), locale)

RECURSIVE ProcessProducts(_, _, _)
\* the loop over the products of one response: a product whose identifier
\* is not yet in results is appended; an exception leaves the loop with
\* the results appended so far
ProcessProducts(results, prods, locale) ==
    IF prods = <<>> THEN [results |-> results, exc |-> FALSE]
    ELSE IF ~Head(prods).ok THEN [results |-> results, exc |-> TRUE]
    ELSE ProcessProducts(
            IF HasAsin(results, Head(prods).asin) THEN results
            ELSE Append(results, [asin |-> Head(prods).asin, locale |-> locale]),
            Tail(prods), locale)

RECURSIVE SearchAbortsOnFailure(_, _, _, _)
SearchAbortsOnFailure(catalog, locale, results, queried) ==
    IF locale > Len(catalog) THEN [results |-> results, queried |-> queried]
    ELSE IF catalog[locale].fail
    THEN [results |-> results, queried |-> queried \cup {locale}]
    ELSE LET r == ProcessProducts(results, catalog[locale].products, locale)
         IN IF ~r.exc /\ r.results # <<>>
            THEN [results |-> r.results, queried |-> queried \cup {locale}]
            ELSE SearchAbortsOnFailure(catalog, locale + 1, r.results,
                                       queried \cup {locale})

RECURSIVE SearchFrom(_, _, _, _)
\* the loop over the locales from locale on: a failed request or an
\* exception while processing goes on with the next locale ("continue"),
\* results that are not empty after a locale end the loop ("break")
SearchFrom(catalog, locale, results, queried) ==
    IF locale > Len(catalog) THEN [results |-> results, queried |-> queried]
    ELSE IF catalog[locale].fail
    THEN SearchFrom(catalog, locale + 1, results, queried \cup {locale})
    ELSE LET r == ProcessProducts(results, catalog[locale].products, locale)
         IN IF ~r.exc /\ r.results # <<>>
            THEN [results |-> r.results, queried |-> queried \cup {locale}]
            ELSE SearchFrom(catalog, locale + 1, r.results,
                            queried \cup {locale})

\* search_audible: the first MaxResults results, and the locales queried
SearchAudible(catalog) ==
    LET r == SearchFrom(catalog, 1, <<>>, {})
    IN [results |-> Take(r.results, MaxResults), queried |-> r.queried]

\* a call that has not returned yet, and its state: nothing else is there
Asked(op, arg) == [op |-> op, arg |-> arg, ret |-> None]

Returned(op) == call.op = op /\ IsSet(call.ret)

Ret == Val(call.ret)

EmptyState ==
    /\ jobs = [k \in {} |-> NewJob(CONVERSION, <<>>, 0)]
    /\ nextJob = 1
    /\ task = [j \in JobIds |-> IdleTask]
    /\ loop = 0
    /\ disk = [p \in {} |-> 0]
    /\ tagged = [k \in {} |-> NewTagged(NoPath)]
    /\ nextFile = 1
    /\ now = 0
    /\ lastApply = NoApply

SearchInit ==
    /\ EmptyState
    /\ \E catalog \in Catalogs : call = Asked("search", catalog)

Search ==
    /\ call.op = "search" /\ ~IsSet(call.ret)
    /\ call' = [call EXCEPT !.ret = Some(SearchAudible(call.arg))]
    /\ UNCHANGED <<jobs, nextJob, task, loop, disk, tagged, nextFile, now, lastApply>>

SearchNext == Search

SearchSpec == SearchInit /\ [][SearchNext]_vars

\* the request to locale l failed or its answer holds no product
NoProduct(catalog, l) == catalog[l].fail \/ catalog[l].products = <<>>

\* C24: when every endpoint fails or returns no product the search returns
\* the empty list; a failed endpoint does not end the search, the next one
\* is queried.
C24_NothingFoundIsEmptyList ==
    Returned("search") =>
       /\ (\A l \in Locales : NoProduct(call.arg, l))
             => Ret = [results |-> <<>>, queried |-> Locales]
       /\ \A l \in Ret.queried :
             (call.arg[l].fail /\ l < NumLocales) => l + 1 \in Ret.queried

\* a search found nothing: the first endpoint failed, another one had no
\* product
C24_AllFailedOrEmpty ==
    /\ Returned("search")
    /\ call.arg[1].fail
    /\ \E l \in Locales : ~call.arg[l].fail
    /\ \A l \in Locales : NoProduct(call.arg, l)
    /\ Ret.results = <<>>

\* C25: the candidates returned all come from one endpoint, the first one
\* that gave a candidate, and no endpoint after that one is queried.
C25_StopsAtFirstHit ==
    (Returned("search") /\ Ret.results # <<>>) =>
       /\ \A i \in DOMAIN Ret.results :
             Ret.results[i].locale = Ret.results[1].locale
       /\ \A l \in Ret.queried : l <= Ret.results[1].locale

\* the first index of the product with this identifier in a list
FirstIndex(prods, asin) ==
    CHOOSE i \in DOMAIN prods :
        /\ prods[i].asin = asin
        /\ \A k \in 1..(i - 1) : prods[k].asin # asin

\* C26: the list returned has no two candidates with the same identifier,
\* has at most 5 entries, and keeps the candidates of an endpoint in the
\* order of that endpoint's answer.
C26_DistinctCappedInOrder ==
    Returned("search") =>
       LET res == Ret.results
       IN /\ Len(res) <= 5
          /\ \A i, j \in DOMAIN res : i # j => res[i].asin # res[j].asin
          /\ \A i, j \in DOMAIN res :
                (i < j /\ res[i].locale = res[j].locale) =>
                   FirstIndex(call.arg[res[i].locale].products, res[i].asin)
                      < FirstIndex(call.arg[res[j].locale].products, res[j].asin)

\* the answer used held a product twice and six different products, and
\* the search returned five candidates
C26_AnswerCutAndDeduplicated ==
    /\ Returned("search")
    /\ Ret.results # <<>>
    /\ \E l \in Locales :
          /\ call.arg[l].products = RepeatingList
          /\ Ret.results[1].locale = l
          /\ Len(Ret.results) = MaxResults

\* --------------------------------------------- get_jobs and count_jobs
\* Stores of up to ListMaxJobs jobs created at times up to ListMaxTime, so
\* that jobs share a creation time; every filter, limits up to
\* ListMaxLimit, offsets up to ListMaxOffset.
ListMaxJobs == 3

ListMaxTime == 1

ListMaxLimit == 2

ListMaxOffset == 2

ListStores ==
    UNION {[1..n -> {StoredJob(type, st, c) :
                        type \in {CONVERSION, TAGGING},
                        st \in {QUEUED, FAILED},
                        c \in 0..ListMaxTime}] : n \in 0..ListMaxJobs}

ListArgs ==
    [status : {None, Some(QUEUED), Some(FAILED)},
     job_type : {None, Some(CONVERSION), Some(TAGGING)},
     limit : 1..ListMaxLimit,
     offset : 0..ListMaxOffset]

\* the rows the where clauses of get_jobs and count_jobs select
Matching(js, st, ty) ==
    {k \in DOMAIN js : /\ ~IsSet(st) \/ js[k].status = Val(st)
                       /\ ~IsSet(ty) \/ js[k].job_type = Val(ty)}

\* order_by(created_at.desc()): the orders of the rows of S the database
\* may produce; rows created at the same time come in any order
DescendingOrders(js, S) ==
    {s \in [1..Cardinality(S) -> S] :
        /\ \A i, k \in DOMAIN s : i # k => s[i] # s[k]
        /\ \A i, k \in DOMAIN s : i < k => js[s[i]].created_at >= js[s[k]].created_at}

SliceFromStart(s, offset, limit) ==
    SubSeq(s, 1, IF Len(s) < limit THEN Len(s) ELSE limit)

\* offset(offset).limit(limit)
Slice(s, offset, limit) ==
    SubSeq(s, offset + 1, IF Len(s) < offset + limit THEN Len(s) ELSE offset + limit)

\* the lists get_jobs may return
GetJobs(js, a) ==
    {Slice(s, a.offset, a.limit) :
        s \in DescendingOrders(js, Matching(js, a.status, a.job_type))}

CountJobs(js, a) == Cardinality(Matching(js, a.status, a.job_type))

ListInit ==
    /\ jobs \in ListStores
    /\ nextJob = Len(jobs) + 1
    /\ task = [j \in JobIds |-> IdleTask]
    /\ loop = 0
    /\ disk = [p \in {} |-> 0]
    /\ tagged = [k \in {} |-> NewTagged(NoPath)]
    /\ nextFile = 1
    /\ now = ListMaxTime
    /\ lastApply = NoApply
    /\ \E a \in ListArgs : call = Asked("list", a)

\* a page of jobs and the total, as list_unified_jobs asks for them
ListJobs ==
    /\ call.op = "list" /\ ~IsSet(call.ret)
    /\ \E page \in GetJobs(jobs, call.arg) :
          call' = [call EXCEPT !.ret = Some([jobs |-> page,
                                             count |-> CountJobs(jobs, call.arg)])]
    /\ UNCHANGED <<jobs, nextJob, task, loop, disk, tagged, nextFile, now, lastApply>>

ListNext == ListJobs

ListSpec == ListInit /\ [][ListNext]_vars

\* job k passes both filters of the call
Passes(k) ==
    /\ IsSet(call.arg.status) => jobs[k].status = Val(call.arg.status)
    /\ IsSet(call.arg.job_type) => jobs[k].job_type = Val(call.arg.job_type)

Passing == {k \in DOMAIN jobs : Passes(k)}

\* C27: the list returned holds the jobs at positions offset+1 ..
\* offset+limit of the jobs passing both filters in descending order of
\* created_at, and the count is the number of jobs passing both filters.
C27_PageOfSortedMatches ==
    Returned("list") =>
       LET page == Ret.jobs
           n == Cardinality(Passing)
           rest == IF n > call.arg.offset THEN n - call.arg.offset ELSE 0
       IN /\ Ret.count = n
          /\ Len(page) = IF rest < call.arg.limit THEN rest ELSE call.arg.limit
          /\ \A i \in DOMAIN page : page[i] \in Passing
          /\ \A i, k \in DOMAIN page : i # k => page[i] # page[k]
          /\ \A i, k \in DOMAIN page :
                i < k => jobs[page[i]].created_at >= jobs[page[k]].created_at
          /\ \A i \in DOMAIN page :
                /\ Cardinality({k \in Passing :
                      jobs[k].created_at > jobs[page[i]].created_at})
                      <= call.arg.offset + i - 1
                /\ Cardinality({k \in Passing :
                      jobs[k].created_at >= jobs[page[i]].created_at})
                      >= call.arg.offset + i

\* a page after the first that leaves out a job the filters reject and jobs
\* the offset skips
C27_LaterPageOfFiltered ==
    /\ Returned("list")
    /\ call.arg.offset > 0
    /\ Ret.jobs # <<>>
    /\ Ret.count < Len(jobs)
    /\ Len(Ret.jobs) < Ret.count

\* ------------------------------- generate_output_filename_from_folders
\* A string is a sequence of characters: "x" is a character sanitize_filename
\* keeps, "?" one it replaces, "/" the path separator; folder lists of up to
\* NameMaxFolders paths of up to NameMaxLen characters.
NameMaxFolders == 2

NameMaxLen == 3

Chars == {"x", "/", "?", "_", " "}

Strings == UNION {[1..n -> Chars] : n \in 0..NameMaxLen}

FolderArgs == UNION {[1..n -> Strings] : n \in 0..NameMaxFolders}

Converted == <<"c", "o", "n", "v", "e", "r", "t", "e", "d">>

AndSeparator == <<"_", "a", "n", "d", "_">>

Blank == {"_", " "}

RECURSIVE DropLeading(_, _)
DropLeading(s, cs) ==
    IF s # <<>> /\ Head(s) \in cs THEN DropLeading(Tail(s), cs) ELSE s

RECURSIVE DropTrailing(_, _)
DropTrailing(s, cs) ==
    IF s # <<>> /\ s[Len(s)] \in cs
    THEN DropTrailing(SubSeq(s, 1, Len(s) - 1), cs) ELSE s

RECURSIVE LastComponent(_)
\* what follows the last separator
LastComponent(s) ==
    IF s = <<>> \/ s[Len(s)] = "/" THEN <<>>
    ELSE Append(LastComponent(SubSeq(s, 1, Len(s) - 1)), s[Len(s)])

\* Path(folder).name: the last component, trailing separators ignored
PathName(s) == LastComponent(DropTrailing(s, {"/"}))

EndsWith(s, t) ==
    Len(t) <= Len(s) /\ SubSeq(s, Len(s) - Len(t) + 1, Len(s)) = t

\* the two substitutions of characters by "_"
ReplaceInvalid(s) == [i \in DOMAIN s |-> IF s[i] \in {"/", "?"} THEN "_" ELSE s[i]]

RECURSIVE CollapseBlanks(_)
\* re.sub(r'[_\s]+', '_', ...)
CollapseBlanks(s) ==
    IF s = <<>> THEN <<>>
    ELSE IF Head(s) \in Blank
    THEN <<"_">> \o CollapseBlanks(DropLeading(s, Blank))
    ELSE <<Head(s)>> \o CollapseBlanks(Tail(s))

StripBlanks(s) == DropTrailing(DropLeading(s, Blank), Blank)

SanitizeWithoutDefault(s) == StripBlanks(CollapseBlanks(ReplaceInvalid(s)))

\* sanitize_filename
SanitizeFilename(s) ==
    LET r == StripBlanks(CollapseBlanks(ReplaceInvalid(s)))
    IN IF r = <<>> THEN Converted ELSE r

RECURSIVE ValidNames(_)
\* the sanitized names of the folders, those equal to "converted" left out
ValidNames(folders) ==
    IF folders = <<>> THEN <<>>
    ELSE LET n == SanitizeFilename(PathName(Head(folders)))
         IN (IF n # Converted THEN <<n>> ELSE <<>>) \o ValidNames(Tail(folders))

RECURSIVE JoinNames(_)
JoinNames(names) ==
    IF Len(names) = 1 THEN names[1]
    ELSE names[1] \o AndSeparator \o JoinNames(Tail(names))

GenerateOutputFilename(folders) ==
    IF folders = <<>> THEN Converted
    ELSE IF Len(folders) = 1
    THEN LET name == PathName(folders[1])
         IN IF name = <<>> \/ ~EndsWith(folders[1], name) \/ Len(name) < 2
            THEN Converted
            ELSE SanitizeFilename(name)
    ELSE IF ValidNames(folders) = <<>> THEN Converted
    ELSE SanitizeFilename(JoinNames(ValidNames(folders)))

NameInit ==
    /\ EmptyState
    /\ \E folders \in FolderArgs : call = Asked("name", folders)

\* the name is derived, for the first time or once more
DeriveName ==
    /\ call.op = "name"
    /\ call' = [call EXCEPT !.ret = Some(GenerateOutputFilename(call.arg))]
    /\ UNCHANGED <<jobs, nextJob, task, loop, disk, tagged, nextFile, now, lastApply>>

NameNext == DeriveName

NameSpec == NameInit /\ [][NameNext]_vars

BeforeFinalWrite ==
    {"none", "scheduled", "entered", "backup", "collect", "spawn", "waiting"}

\* a step of the estimator task of job j
EstimatorStep(j) ==
    EstimatorStart(j) \/ \E e \in ElapsedSamples : EstimatorTick(j, e)

\* C29: the estimator only runs while the pipeline waits for the encoder;
\* the step that ends the wait leaves the estimator cancelled or finished,
\* goes on without an error of its own and stores progress 100; from then
\* on the stored progress of the job does not change.
C29_NoEstimatorWriteAfterFinal ==
    [][\A j \in JobIds :
          /\ EstimatorStep(j) => task[j].pc = "waiting" /\ task'[j].pc = "waiting"
          /\ (task[j].pc = "waiting" /\ task'[j].pc # "waiting")
                => /\ task'[j].est \in {"cancelled", "done"}
                   /\ task'[j].pc \in {"move", "readerr"}
                   /\ j \in DOMAIN jobs' => jobs'[j].progress = Q(ProgressFinal)
          /\ (task[j].pc \notin BeforeFinalWrite /\ j \in DOMAIN jobs \cap DOMAIN jobs')
                => jobs'[j].progress = jobs[j].progress]_vars

\* the estimator was cancelled in its sleep after it had written a value;
\* the job is at 100 and its task has gone on
C29_CancelledAfterWriting ==
    \E j \in DOMAIN jobs :
        /\ task[j].est = "cancelled"
        /\ ~QEq(task[j].last, Q(0))
        /\ task[j].pc \in {"complete", "returned", "except", "cleanup", "raised"}
        /\ jobs[j].progress = Q(ProgressFinal)

\* ------------------------------------------------ the estimator on its own
\* One conversion job whose encoder runs on CurveFiles files, up to
\* CurveMaxFiles of them; the estimator wakes at any second up to
\* CurveMaxElapsed, beyond the time at which its curve is capped.
CurveMaxFiles == 2

CurveMaxElapsed == 24

EstimatorCap == 90

CurveFiles(n) == [i \in 1..n |-> [folder |-> "A", parts |-> <<i>>]]

WaitingJob ==
    [NewJob(CONVERSION, <<"A">>, 0) EXCEPT
        !.status = RUNNING,
        !.start_time = Some(0),
        !.backup_paths = Some(<<BackupPath("A", 0)>>)]

WaitingTask(n) ==
    [IdleTask EXCEPT !.pc = "waiting", !.est = "created",
                     !.folders = <<"A">>, !.out = ConvertedName,
                     !.files = CurveFiles(n)]

EstimatorInit ==
    /\ jobs = [k \in {1} |-> WaitingJob]
    /\ nextJob = 2
    /\ \E n \in 1..CurveMaxFiles :
          task = [j \in JobIds |-> IF j = 1 THEN WaitingTask(n) ELSE IdleTask]
    /\ loop = 0
    /\ disk = [p \in {BackupPath("A", 0)} |-> 1]
    /\ tagged = [k \in {} |-> NewTagged(NoPath)]
    /\ nextFile = 1
    /\ now = 0
    /\ lastApply = NoApply
    /\ call = NoCall

EstimatorNext ==
    \/ EstimatorStart(1)
    \/ \E e \in 1..CurveMaxElapsed : EstimatorTick(1, e)
    \/ \E rc \in {0, 1} : \E partial \in BOOLEAN : EncoderExit(1, rc, partial)
    \/ ConvertAfterWait(1)

EstimatorSpec == EstimatorInit /\ [][EstimatorNext]_vars

\* C30: the curve of the estimator gives at most 90 for every elapsed time
\* and every number of files from 1; no step taken while the pipeline waits
\* for the encoder stores more than 90, and a job with more than 90 stored
\* has an encoder that has exited.
C30_EstimateAtMostCap ==
    /\ [](\A e \in 0..CurveMaxElapsed : \A n \in 1..CurveMaxFiles :
             QLeq(EstimatorProgress(e, n), Q(EstimatorCap)))
    /\ [](\A j \in DOMAIN jobs :
             ~QLeq(jobs[j].progress, Q(EstimatorCap)) => IsSet(task[j].rc))
    /\ [][\A j \in DOMAIN jobs' :
             (task[j].pc = "waiting" /\ task'[j].pc = "waiting")
                => QLeq(jobs'[j].progress, Q(EstimatorCap))]_vars

\* the estimator has stored 90 while the encoder is still running
C30_CapStored ==
    \E j \in DOMAIN jobs :
        /\ task[j].pc = "waiting"
        /\ task[j].rc = None
        /\ QEq(task[j].last, Q(EstimatorCap))
        /\ QEq(jobs[j].progress, Q(EstimatorCap))

\* ------------------------------------------------- what a failure leaves
\* the files job j made that are in an area
FilesOf(j, area) == {p \in DOMAIN disk : p.area = area /\ disk[p] = j}

FailedConversion(j) ==
    j \in DOMAIN jobs /\ jobs[j].job_type = CONVERSION /\ jobs[j].status = FAILED

\* C31: while a conversion job is FAILED no file it made is in the
\* processing area.
C31_FailedLeavesNoPartial ==
    \A j \in JobIds : FailedConversion(j) => FilesOf(j, "processing") = {}

\* C32: a conversion job that has ended FAILED has no file in the ready
\* area, and no record points at a file it made.
C32_FailedLeavesNoArtifact ==
    \A j \in JobIds :
        (FailedConversion(j) /\ task[j].pc = "done") =>
           /\ FilesOf(j, "ready") = {}
           /\ \A f \in DOMAIN tagged :
                 tagged[f].file_path \in DOMAIN disk
                    => disk[tagged[f].file_path] # j

\* ----------------------------------------------- snapshots before encoding
\* the step that starts the encoder of job j
EncoderInvoked(j) == task[j].pc = "spawn" /\ task'[j].pc = "waiting"

\* the paths recorded on job j are snapshots, on the disk, of the folders
\* of its task, one for each folder and in their order
SnapshotsRecorded(j) ==
    /\ IsSet(jobs[j].backup_paths)
    /\ Len(Val(jobs[j].backup_paths)) = Len(task[j].folders)
    /\ \A i \in DOMAIN task[j].folders :
          LET p == Val(jobs[j].backup_paths)[i]
          IN /\ p \in DOMAIN disk
             /\ p.area = "backup"
             /\ p.base = <<task[j].folders[i]>>

\* C33: when the encoder of a conversion job is started, every input folder
\* has a snapshot on the disk and the job record lists those snapshots.
C33_SnapshotsBeforeEncoder ==
    [][\A j \in DOMAIN jobs : EncoderInvoked(j) => SnapshotsRecorded(j)]_vars

\* the encoder of a job runs and the job lists its snapshots
C33_EncodingWithSnapshots ==
    \E j \in DOMAIN jobs :
        /\ task[j].pc = "waiting"
        /\ task[j].rc = None
        /\ SnapshotsRecorded(j)

\* C34: a QUEUED job has no start_time and no end_time, a RUNNING job has a
\* start_time and no end_time, a COMPLETED or FAILED job has an end_time,
\* and a FAILED job has a log.
C34_TimesAndLogFollowStatus ==
    \A j \in DOMAIN jobs :
        /\ jobs[j].status = QUEUED
              => ~IsSet(jobs[j].start_time) /\ ~IsSet(jobs[j].end_time)
        /\ jobs[j].status = RUNNING
              => IsSet(jobs[j].start_time) /\ ~IsSet(jobs[j].end_time)
        /\ jobs[j].status \in Terminal => IsSet(jobs[j].end_time)
        /\ jobs[j].status = FAILED => IsSet(jobs[j].log)

\* a FAILED job with its log and both times is in the store together with
\* a job of another status
C34_EveryStatusSeen ==
    /\ \E j \in DOMAIN jobs :
          /\ jobs[j].status = FAILED /\ IsSet(jobs[j].log)
          /\ IsSet(jobs[j].start_time) /\ IsSet(jobs[j].end_time)
    /\ \E j \in DOMAIN jobs :
          jobs[j].status \in {QUEUED, RUNNING, COMPLETED}

\* ------------------------------------------------ snapshots of several folders
\* convert_folders takes a list of folders and snapshots them one after the
\* other; this specification starts it with every list of up to
\* SnapshotMaxFolders folders, after an earlier job that may have left the
\* snapshot of folder "A" of second 0 behind.
SnapshotMaxFolders == 2

SnapshotFolderLists ==
    UNION {[1..n -> {f \in Folders : FolderExists(f)}] : n \in 1..SnapshotMaxFolders}

EarlierJob ==
    [NewJob(CONVERSION, <<"A">>, 0) EXCEPT
        !.status = FAILED,
        !.start_time = Some(0),
        !.end_time = Some(0),
        !.log = Some("NoneType"),
        !.backup_paths = Some(<<BackupPath("A", 0)>>)]

SnapshotJob(fs, t) ==
    [NewJob(CONVERSION, fs, t) EXCEPT !.status = RUNNING, !.start_time = Some(t)]

SnapshotTask(fs, t) ==
    [IdleTask EXCEPT !.pc = "backup", !.folders = fs,
                     !.out = OutputName(fs, None, t)]

SnapshotInit ==
    /\ \E fs \in SnapshotFolderLists : \E t \in 0..MaxTime :
          /\ jobs = [k \in {1, 2} |-> IF k = 1 THEN SnapshotJob(fs, t) ELSE EarlierJob]
          /\ task = [j \in JobIds |-> IF j = 1 THEN SnapshotTask(fs, t)
                                     ELSE [IdleTask EXCEPT !.pc = "done"]]
          /\ now = t
    /\ nextJob = 3
    /\ loop = 1
    /\ \E left \in BOOLEAN :
          disk = [p \in IF left THEN {BackupPath("A", 0)} ELSE {} |-> 2]
    /\ tagged = [k \in {} |-> NewTagged(NoPath)]
    /\ nextFile = 1
    /\ lastApply = NoApply
    /\ call = NoCall

SnapshotNext ==
    \/ \E failAt \in 0..SnapshotMaxFolders : ConvertBackups(1, failAt)
    \/ ConvertCollect(1)
    \/ ConvertExcept(1)
    \/ ConvertCleanup(1)

SnapshotSpec == SnapshotInit /\ [][SnapshotNext]_vars

CleanedUp(j) == task[j].pc = "cleanup" /\ task'[j].pc = "raised"

\* C36: the failure cleanup of a conversion deletes no file that another
\* conversion wrote, also when both convert the same folder and so get the
\* same output name
C36_CleanupDeletesOwnFilesOnly ==
    [][\A j \in JobIds :
          CleanedUp(j) => \A p \in DOMAIN disk \ DOMAIN disk' : disk[p] = j]_vars

\* C37: a conversion that is FAILED after its encoder exited with a non-zero
\* code does not have the stored progress 100
C37_FullProgressOnlyAfterCleanExit ==
    \A j \in DOMAIN jobs :
        (FailedConversion(j) /\ IsSet(task[j].rc) /\ Val(task[j].rc) # 0)
           => jobs[j].progress # Q(ProgressFinal)

\* C38: no two records of tagged files have the same file_path
C38_RecordPathsDistinct ==
    \A f, g \in DOMAIN tagged :
        f # g => tagged[f].file_path # tagged[g].file_path

\* ------------------------------------------- two jobs with one output_file
\* convert_folders run twice with the requested output name "out": both
\* jobs are COMPLETED with the same output_file, each with the snapshot of
\* its own folder; the second run's file replaced the first one's in the
\* ready area, and each run added its record. From there metadata is
\* applied, jobs are deleted and files are lost as in ApplySpec.
SharedName == OutputName(<<"A">>, Some("out"), 0)

CompletedJob(folder, t) ==
    [NewJob(CONVERSION, <<folder>>, t) EXCEPT
        !.status = COMPLETED,
        !.output_file = Some(ReadyPath(SharedName)),
        !.backup_paths = Some(<<BackupPath(folder, t)>>),
        !.progress = Q(ProgressFinal),
        !.start_time = Some(t),
        !.end_time = Some(t)]

SharedOutputInit ==
    /\ jobs = [k \in {1, 2} |-> IF k = 1 THEN CompletedJob("A", 0)
                                ELSE CompletedJob("E", MaxTime)]
    /\ nextJob = 3
    /\ task = [j \in JobIds |-> DoneTask]
    /\ loop = 0
    /\ disk = [p \in {ReadyPath(SharedName), BackupPath("A", 0),
                      BackupPath("E", MaxTime)} |->
                 IF p = BackupPath("A", 0) THEN 1 ELSE 2]
    /\ tagged = [k \in {1, 2} |-> NewTagged(ReadyPath(SharedName))]
    /\ nextFile = 3
    /\ now = MaxTime
    /\ lastApply = NoApply
    /\ call = NoCall

SharedOutputSpec == SharedOutputInit /\ [][ApplyNext]_vars

====
